---- MODULE Spec2Model ----
(***************************************************************************)
(* Deep-link authentication handshake of the IFit Club client:             *)
(*   parseDeepLink / useDeepLink   (src/src/hooks/useDeepLink.ts)          *)
(*   AuthProvider                  (src/unnamed/part_001, AuthContext)     *)
(*   AppNavigator                  (src/unnamed/part_000, App)             *)
(*   LoginPage                     (src/src/LoginPage.tsx)                 *)
(*   useAthleteData                (src/unnamed/part_002)                  *)
(*   ProfileScreen.handleLogout    (src/src/screens/ProfileScreen.tsx)     *)
(*                                                                         *)
(* A JavaScript string is a sequence of lexemes (short TLA+ strings): a    *)
(* lexeme is either one character of a value ("4", "a", "%") or a whole    *)
(* syntactic unit of a URL ("ifitclub://", "auth-success", "?", "&", "=",  *)
(* "athleteId", a two-digit hex pair such as "25").  null is the sentinel  *)
(* sequence Null, which no string of the program equals.                   *)
(***************************************************************************)
EXTENDS Integers, Sequences, FiniteSets, TLC

VARIABLES
    storage,         \* AsyncStorage: key -> <<>> (absent) or <<value>>
    isLoading,       \* AuthProvider state
    isAuthenticated, \* AuthProvider state
    user,            \* AuthProvider state: <<>> (null) or <<AuthUser>>
    token,           \* AuthProvider state: Null or a string
    pendingDeepLink, \* AuthProvider state: <<>> (null) or <<[id, result]>>
    bootPc,          \* checkAuth: "read" | "profile" | "done"
    launchUrl,       \* what Linking.getInitialURL() resolves to (Null: none)
    hookInit,        \* useDeepLink launch lookups in flight: set of activations
    authInitPc,      \* AuthProvider.checkInitialDeepLink: "timer" | "done"
    processedUrls,   \* useDeepLink processedUrls ref
    enabled,         \* useDeepLink `enabled` argument of the current render
    activation,      \* number of the current (or last) activation of useDeepLink
    subscribed,      \* useDeepLink live subscription is registered
    cbCount,         \* calls of the useDeepLink callback in this activation, per URL
    seenCount,       \* arrivals at useDeepLink.handleUrl in this activation, per URL
    cbOff,           \* calls of the useDeepLink callback made while enabled was false
    cbPast,          \* URLs the callback was called with in earlier activations
    route,           \* top screen: "Loading" | "Login" | "MainTabs"
    loginMounted,    \* LoginPage is mounted (its listener is subscribed)
    mainMounted,     \* MainTabs is mounted (screens using useAthleteData)
    loginInit,       \* LoginPage.checkInitialUrl lookups in flight (count)
    procs,           \* processAuthSuccess / processAuthError invocations
    fetchPc,         \* useAthleteData.fetchData: "idle" | "cached" | "network" | "writing"
    fetchLeft,       \* useAthleteData.fetchData: cache writes still to issue
    logoutPc,        \* AuthProvider.logout: "idle" | "removing" | "failing"
    liveLog,         \* live 'url' events delivered so far
    faults,          \* storage failures injected so far (their kinds)
    nEvents,         \* results placed in the pending slot so far
    dropped,         \* ids of the results overwritten in the slot before they were consumed
    nToggles,        \* changes of `enabled` so far
    nLogout,         \* logout calls so far
    nFetch,          \* fetchData calls so far
    loggedOut,       \* a logout has resolved and login was not called since
    oauthOpens,      \* Linking.openURL calls of handleStravaConnect so far
    parseIn,         \* parseDeepLink called on its own: the argument
    parseOut,        \* parseDeepLink called on its own: <<>> or <<the result>>
    client,          \* AuthProvider driven directly: the call in flight
    hist,            \* AuthProvider driven directly: the calls resolved so far
    restarts         \* AuthProvider driven directly: the restarts of the app so far

authVars == <<isLoading, isAuthenticated, user, token>>
hookVars == <<hookInit, processedUrls, enabled, activation, subscribed, nToggles>>
logVars == <<cbCount, seenCount, cbOff, cbPast>>
slotVars == <<pendingDeepLink, nEvents, dropped>>
navVars == <<route, loginMounted, mainMounted, loginInit>>
fetchVars == <<fetchPc, fetchLeft, nFetch>>
logoutVars == <<logoutPc, nLogout, loggedOut>>
clientVars == <<client, hist, restarts>>
parseVars == <<parseIn, parseOut>>

vars == <<storage, authVars, slotVars, bootPc, launchUrl, authInitPc, hookVars,
          logVars, navVars, procs, fetchVars, logoutVars, liveLog, faults,
          clientVars, oauthOpens, parseVars>>

-----------------------------------------------------------------------------
(* Strings *)

Null == <<"<null>">>

\* JavaScript truthiness of a string-or-null value
Truthy(s) == s # Null /\ s # <<>>

Scheme == "ifitclub://"

Digits == {"0", "1", "2", "3", "4", "5", "6", "7", "8", "9"}

DigitVal(c) ==
    CASE c = "0" -> 0 [] c = "1" -> 1 [] c = "2" -> 2 [] c = "3" -> 3
      [] c = "4" -> 4 [] c = "5" -> 5 [] c = "6" -> 6 [] c = "7" -> 7
      [] c = "8" -> 8 [] c = "9" -> 9

\* the value parseInt and Number.prototype.toString use for "not a number"
NaN == -1

RECURSIVE DigitPrefix(_, _, _)
DigitPrefix(s, i, acc) ==
    IF i <= Len(s) /\ s[i] \in Digits
    THEN DigitPrefix(s, i + 1, acc * 10 + DigitVal(s[i]))
    ELSE acc

\* parseInt(s, 10): the value of the longest prefix of decimal digits, NaN
\* when the string does not start with a digit
parseInt(s) ==
    IF s # Null /\ Len(s) >= 1 /\ s[1] \in Digits THEN DigitPrefix(s, 1, 0) ELSE NaN

DigitChar(d) ==
    CASE d = 0 -> "0" [] d = 1 -> "1" [] d = 2 -> "2" [] d = 3 -> "3"
      [] d = 4 -> "4" [] d = 5 -> "5" [] d = 6 -> "6" [] d = 7 -> "7"
      [] d = 8 -> "8" [] d = 9 -> "9"

RECURSIVE DecimalOf(_)
DecimalOf(n) ==
    IF n < 10 THEN <<DigitChar(n)>> ELSE Append(DecimalOf(n \div 10), DigitChar(n % 10))

\* athleteId.toString()
toString(n) == IF n = NaN THEN <<"NaN">> ELSE DecimalOf(n)

-----------------------------------------------------------------------------
(* Percent-decoding *)

HexPairs == {"20", "25", "41"}

HexChar(h) == CASE h = "20" -> " " [] h = "25" -> "%" [] h = "41" -> "A"

Throws == <<"<throws>">>

\* the decoding URLSearchParams applies to a value: "+" is a space, a
\* well-formed escape is decoded, a malformed "%" is kept as it is
RECURSIVE FormDecode(_)
FormDecode(s) ==
    IF s = <<>> THEN <<>>
    ELSE IF s[1] = "+" THEN <<" ">> \o FormDecode(Tail(s))
    ELSE IF s[1] = "%" /\ Len(s) >= 2 /\ s[2] \in HexPairs
         THEN <<HexChar(s[2])>> \o FormDecode(SubSeq(s, 3, Len(s)))
    ELSE <<s[1]>> \o FormDecode(Tail(s))

\* decodeURIComponent: a malformed "%" raises URIError
RECURSIVE decodeURIComponent(_)
decodeURIComponent(s) ==
    IF s = <<>> THEN <<>>
    ELSE IF s[1] = "%"
         THEN IF Len(s) >= 2 /\ s[2] \in HexPairs
              THEN LET rest == decodeURIComponent(SubSeq(s, 3, Len(s)))
                   IN  IF rest = Throws THEN Throws ELSE <<HexChar(s[2])>> \o rest
              ELSE Throws
    ELSE LET rest == decodeURIComponent(Tail(s))
         IN  IF rest = Throws THEN Throws ELSE <<s[1]>> \o rest

-----------------------------------------------------------------------------
(* parseDeepLink *)

\* position of the first occurrence of lexeme c in s at or after i, 0 if none
RECURSIVE IndexFrom(_, _, _)
IndexFrom(s, c, i) ==
    IF i > Len(s) THEN 0 ELSE IF s[i] = c THEN i ELSE IndexFrom(s, c, i + 1)

\* s.split(c): the pieces of s between the occurrences of c
RECURSIVE Split(_, _)
Split(s, c) ==
    LET i == IndexFrom(s, c, 1)
    IN  IF i = 0 THEN <<s>>
        ELSE <<SubSeq(s, 1, i - 1)>> \o Split(SubSeq(s, i + 1, Len(s)), c)

\* a scheme test that accepts the scheme anywhere in the string
SchemeAnywhere(url) == \E i \in 1..Len(url) : url[i] = Scheme

\* url.startsWith('ifitclub://')
startsWithScheme(url) == Len(url) >= 1 /\ url[1] = Scheme

\* url.includes(marker)
includes(url, marker) == \E i \in 1..Len(url) : url[i] = marker

\* new URLSearchParams(queryString).get(key): the decoded value of the first
\* pair named key, null when there is none
RECURSIVE PairsGet(_, _)
PairsGet(pairs, key) ==
    IF pairs = <<>> THEN Null
    ELSE LET p  == pairs[1]
             eq == IndexFrom(p, "=", 1)
             k  == IF eq = 0 THEN p ELSE SubSeq(p, 1, eq - 1)
             v  == IF eq = 0 THEN <<>> ELSE SubSeq(p, eq + 1, Len(p))
         IN  IF p # <<>> /\ FormDecode(k) = <<key>>
             THEN FormDecode(v)
             ELSE PairsGet(Tail(pairs), key)

urlParamsGet(queryString, key) == PairsGet(Split(queryString, "&"), key)

NullParams ==
    [athleteId |-> Null, token |-> Null, firstName |-> Null,
     lastName |-> Null, profile |-> Null, error |-> Null]

\* urlParams.get(k) ? decodeURIComponent(urlParams.get(k)!) : null
DecodedAgain(queryString, key) ==
    LET v == urlParamsGet(queryString, key)
    IN  IF Truthy(v) THEN decodeURIComponent(v) ELSE Null

DetectType(url) ==
    IF includes(url, "auth-success") THEN "auth-success"
    ELSE IF includes(url, "auth-error") THEN "auth-error"
    ELSE "unknown"

parseDeepLink(url) ==
    IF ~Truthy(url)
    THEN [type |-> "null", params |-> NullParams, rawUrl |-> Null]
    ELSE IF ~startsWithScheme(url)
    THEN [type |-> "unknown", params |-> NullParams, rawUrl |-> url]
    ELSE
      LET parts       == Split(url, "?")
          hasQuery    == Len(parts) >= 2 /\ parts[2] # <<>>
          queryString == IF hasQuery THEN parts[2] ELSE <<>>
          profile     == DecodedAgain(queryString, "profile")
          error       == DecodedAgain(queryString, "error")
      IN  IF hasQuery /\ (profile = Throws \/ error = Throws)
          THEN [type |-> "unknown", params |-> NullParams, rawUrl |-> url]
          ELSE [type   |-> DetectType(url),
                params |-> IF hasQuery
                           THEN [athleteId |-> urlParamsGet(queryString, "athleteId"),
                                 token     |-> urlParamsGet(queryString, "token"),
                                 firstName |-> urlParamsGet(queryString, "firstName"),
                                 lastName  |-> urlParamsGet(queryString, "lastName"),
                                 profile   |-> profile,
                                 error     |-> error]
                           ELSE NullParams,
                rawUrl |-> url]

-----------------------------------------------------------------------------
(* Bounds and the values the environment draws from *)

MaxLive == 1
MaxProcs == 2
MaxFaults == 1
MaxLogout == 1
MaxFetch == 1
MaxToggles == 2
MaxOAuth == 1
MaxUrlLen == 3

UrlOk ==
    <<Scheme, "auth-success", "?", "athleteId", "=", "4", "2", "&",
      "token", "=", "a", "b", "c">>
UrlNoId == <<Scheme, "auth-success", "?", "token", "=", "a", "b", "c">>
UrlNoToken ==
    <<Scheme, "auth-success", "?", "athleteId", "=", "4", "2", "&", "token", "=">>
UrlErr == <<Scheme, "auth-error", "?", "error", "=", "n", "o">>
UrlOther == <<"https://", "example.com/other">>
UrlEmpty == <<>>

\* callback URLs whose athleteId is not a decimal integer: no digit at all,
\* and a digit followed by a letter
UrlBadId ==
    <<Scheme, "auth-success", "?", "athleteId", "=", "x", "&",
      "token", "=", "a", "b", "c">>
UrlMixedId ==
    <<Scheme, "auth-success", "?", "athleteId", "=", "4", "x", "&",
      "token", "=", "a", "b", "c">>
IdUrls == {UrlBadId, UrlMixedId}

LaunchUrls == {Null, UrlOk}
LiveUrls == {UrlOk, UrlNoId, UrlNoToken, UrlErr, UrlOther, UrlEmpty}
Urls == LiveUrls \cup (LaunchUrls \ {Null}) \cup IdUrls
NoCalls == [u \in Urls |-> 0]

Keys ==
    {"authToken", "athleteId", "isLoggedIn", "athleteProfile",
     "athleteStats", "athleteActivities"}

Absent == <<>>
Present(st, k) == st[k] # Absent

EmptyStorage == [k \in Keys |-> Absent]

ProfileJson(first, last, prof, medium) ==
    [valid |-> TRUE, firstName |-> first, lastName |-> last,
     profile |-> prof, profileMedium |-> medium]

\* what the API returns for the athlete's profile, stats and activities
ApiProfile == ProfileJson(<<"J">>, <<"D">>, <<>>, <<"m">>)
ApiStats == <<"stats">>
ApiActivities == <<"acts">>

\* a session left in storage by an earlier run of the application
StoredSession ==
    [EmptyStorage EXCEPT !["authToken"] = <<(<<"o", "l", "d">>)>>,
                         !["athleteId"] = <<(<<"7">>)>>,
                         !["isLoggedIn"] = <<(<<"true">>)>>]


-----------------------------------------------------------------------------
(* AuthProvider (AuthContext) *)

Or(s, d) == IF Truthy(s) THEN s ELSE d

\* a bootstrap that trusts the token and the id and ignores the isLoggedIn flag
HasTokenAndId(st) ==
    /\ Present(st, "authToken") /\ Truthy(st["authToken"][1])
    /\ Present(st, "athleteId") /\ Truthy(st["athleteId"][1])

\* checkAuth, line 59: storedIsLoggedIn === 'true' && storedToken && storedAthleteId
HasStoredSession(st) ==
    /\ st["isLoggedIn"] = <<(<<"true">>)>>
    /\ Present(st, "authToken") /\ Truthy(st["authToken"][1])
    /\ Present(st, "athleteId") /\ Truthy(st["athleteId"][1])

\* checkAuth, lines 64-79: the user built from the stored id and cached profile
StoredUser(st) ==
    IF Present(st, "athleteProfile")
    THEN LET p == st["athleteProfile"][1]
         IN  [athleteId |-> parseInt(st["athleteId"][1]),
              firstName |-> Or(p.firstName, <<>>),
              lastName  |-> Or(p.lastName, <<>>),
              profile   |-> Or(p.profile, Or(p.profileMedium, <<>>))]
    ELSE [athleteId |-> parseInt(st["athleteId"][1]),
          firstName |-> <<>>, lastName |-> <<>>, profile |-> <<>>]

\* a JSON.parse that accepts whatever is stored
ProfileNeverThrows(st) == FALSE

\* JSON.parse(cachedProfile) throws
ProfileUnparseable(st) ==
    Present(st, "athleteProfile") /\ ~st["athleteProfile"][1].valid

\* login, lines 136-145: the four setItem calls; ok is the set of keys whose
\* write succeeds
LoginKeys == {"authToken", "athleteId", "isLoggedIn", "athleteProfile"}

LoginValue(k, newToken, newUser) ==
    CASE k = "authToken"      -> newToken
      [] k = "athleteId"      -> toString(newUser.athleteId)
      [] k = "isLoggedIn"     -> <<"true">>
      [] k = "athleteProfile" ->
            ProfileJson(newUser.firstName, newUser.lastName, newUser.profile, Null)

LoginWrites(st, newToken, newUser, ok) ==
    [k \in Keys |-> IF k \in LoginKeys /\ k \in ok
                    THEN <<LoginValue(k, newToken, newUser)>>
                    ELSE st[k]]

\* a logout that forgets the caches other components wrote
LogoutKeysSessionOnly == {"authToken", "athleteId", "isLoggedIn", "athleteProfile"}

\* logout, lines 160-167: AsyncStorage.multiRemove
LogoutKeys ==
    {"authToken", "athleteId", "isLoggedIn", "athleteProfile",
     "athleteStats", "athleteActivities"}

LogoutRemoves(st) == [k \in Keys |-> IF k \in LogoutKeys THEN Absent ELSE st[k]]

\* a login that commits the session although a write failed
LoginSettleCommitsAnyway(ok, newToken, newUser) ==
    /\ token' = newToken
    /\ user' = <<newUser>>
    /\ isAuthenticated' = TRUE

\* a login that commits the user and the flag and keeps the old token
LoginSettleKeepsToken(ok, newToken, newUser) ==
    IF ok
    THEN /\ token' = token
         /\ user' = <<newUser>>
         /\ isAuthenticated' = TRUE
    ELSE UNCHANGED <<token, user, isAuthenticated>>

\* login, lines 147-153, after the writes: commit the session, or rethrow
LoginSettle(ok, newToken, newUser) ==
    IF ok
    THEN /\ token' = newToken
         /\ user' = <<newUser>>
         /\ isAuthenticated' = TRUE
    ELSE UNCHANGED <<token, user, isAuthenticated>>

\* a logout that clears the token and the flag and leaves the user in place
LogoutSettleKeepsUser(ok) ==
    IF ok
    THEN /\ token' = Null
         /\ user' = user
         /\ isAuthenticated' = FALSE
    ELSE UNCHANGED <<token, user, isAuthenticated>>

\* logout, lines 169-175, after multiRemove: clear the session, or rethrow
LogoutSettle(ok) ==
    IF ok
    THEN /\ token' = Null
         /\ user' = <<>>
         /\ isAuthenticated' = FALSE
    ELSE UNCHANGED <<token, user, isAuthenticated>>

\* a slot that keeps the result it holds and discards the newcomer
SetPendingKeepsFirst(result) ==
    /\ pendingDeepLink' = IF pendingDeepLink = <<>>
                          THEN <<[id |-> nEvents + 1, result |-> result]>>
                          ELSE pendingDeepLink
    /\ nEvents' = nEvents + 1
    /\ dropped' = IF pendingDeepLink = <<>> THEN dropped
                  ELSE dropped \cup {nEvents + 1}

\* setPendingDeepLink(result), lines 102, 104 and 121: the slot is one state
\* cell, so the result replaces whatever the slot held
SetPending(result) ==
    /\ pendingDeepLink' = <<[id |-> nEvents + 1, result |-> result]>>
    /\ nEvents' = nEvents + 1
    /\ dropped' = IF pendingDeepLink = <<>> THEN dropped
                  ELSE dropped \cup {pendingDeepLink[1].id}

\* the slot accepts a result: handleDeepLink, lines 100-105
SlotAccepts(result) == result.type = "auth-success" \/ result.type = "auth-error"

\* checkInitialDeepLink, lines 117-122
SelfCheckAccepts(url) ==
    /\ Truthy(url)
    /\ startsWithScheme(url)
    /\ parseDeepLink(url).type \in {"auth-success", "auth-error"}

-----------------------------------------------------------------------------
(* AppNavigator *)

\* the screen the linking configuration maps a URL to (App, lines 22-33)
LinkingRoute(url) ==
    IF Truthy(url) /\ startsWithScheme(url)
    THEN LET path == Tail(Split(url, "?")[1])
         IN  IF path = <<"auth-success">> THEN "Login"
             ELSE IF path = <<"home">> THEN "MainTabs"
             ELSE "none"
    ELSE "none"

\* the first screen once isLoading is false (AppNavigator, lines 48-54)
InitialRoute(auth) ==
    IF LinkingRoute(launchUrl) = "Login" THEN "Login"
    ELSE IF auth THEN "MainTabs" ELSE "Login"

\* AppNavigator renders the stack: the first screen mounts, and a mounted
\* LoginPage starts its launch-URL lookup (LoginPage, line 180)
MountFirst(auth) ==
    /\ route' = InitialRoute(auth)
    /\ loginMounted' = (InitialRoute(auth) = "Login")
    /\ mainMounted' = (InitialRoute(auth) = "MainTabs")
    /\ loginInit' = IF InitialRoute(auth) = "Login" THEN loginInit + 1 ELSE loginInit

-----------------------------------------------------------------------------
(* checkAuth: bootstrap from storage *)

MayFail == Len(faults) < MaxFaults

\* lines 47-59 and 86-90: the three reads resolve
CheckAuthRead ==
    /\ bootPc = "read"
    /\ \/ /\ HasStoredSession(storage)
          /\ bootPc' = "profile"
          /\ UNCHANGED <<authVars, navVars, faults>>
       \/ /\ ~HasStoredSession(storage)
          /\ bootPc' = "done"
          /\ isLoading' = FALSE
          /\ MountFirst(FALSE)
          /\ UNCHANGED <<isAuthenticated, user, token, faults>>
       \/ /\ MayFail
          /\ faults' = Append(faults, "read")
          /\ bootPc' = "done"
          /\ isLoading' = FALSE
          /\ MountFirst(FALSE)
          /\ UNCHANGED <<isAuthenticated, user, token>>
    /\ UNCHANGED <<storage, slotVars, launchUrl, authInitPc, hookVars, logVars,
                   procs, fetchVars, logoutVars, liveLog, clientVars>>
    /\ UNCHANGED <<oauthOpens, parseVars>>

\* a checkAuth without its finally: a throw leaves isLoading as it is
CheckAuthProfileNoFinally ==
    /\ bootPc = "profile"
    /\ bootPc' = "done"
    /\ \/ /\ ~ProfileUnparseable(storage)
          /\ isLoading' = FALSE
          /\ token' = storage["authToken"][1]
          /\ user' = <<StoredUser(storage)>>
          /\ isAuthenticated' = TRUE
          /\ MountFirst(TRUE)
          /\ UNCHANGED faults
       \/ /\ ProfileUnparseable(storage)
          /\ UNCHANGED <<authVars, navVars, faults>>
       \/ /\ MayFail
          /\ faults' = Append(faults, "read")
          /\ UNCHANGED <<authVars, navVars>>
    /\ UNCHANGED <<storage, slotVars, launchUrl, authInitPc, hookVars, logVars,
                   procs, fetchVars, logoutVars, liveLog, clientVars, oauthOpens>>
    /\ UNCHANGED parseVars

\* lines 61-90: the read of athleteProfile resolves
CheckAuthProfile ==
    /\ bootPc = "profile"
    /\ bootPc' = "done"
    /\ isLoading' = FALSE
    /\ \/ /\ ~ProfileUnparseable(storage)
          /\ token' = storage["authToken"][1]
          /\ user' = <<StoredUser(storage)>>
          /\ isAuthenticated' = TRUE
          /\ MountFirst(TRUE)
          /\ UNCHANGED faults
       \/ /\ ProfileUnparseable(storage)
          /\ MountFirst(FALSE)
          /\ UNCHANGED <<isAuthenticated, user, token, faults>>
       \/ /\ MayFail
          /\ faults' = Append(faults, "read")
          /\ MountFirst(FALSE)
          /\ UNCHANGED <<isAuthenticated, user, token>>
    /\ UNCHANGED <<storage, slotVars, launchUrl, authInitPc, hookVars, logVars,
                   procs, fetchVars, logoutVars, liveLog, clientVars>>
    /\ UNCHANGED <<oauthOpens, parseVars>>

-----------------------------------------------------------------------------
(* useDeepLink *)

\* handleUrl, line 137 and 140: the URL is taken up (en: the `enabled` the
\* closure captured)
HandleUrlRuns(url, en, processed) == Truthy(url) /\ en /\ url \notin processed

\* a handleUrl that holds back only the null-typed result
ForwardsUnknown(result) == result.type # "null"

\* handleUrl, line 149
Forwards(result) == result.type # "null" /\ result.type # "unknown"

Bump(count, url) == [count EXCEPT ![url] = @ + 1]

\* handleUrl, lines 136-152, with AuthProvider.handleDeepLink (lines 97-106)
\* as the registered callback
HookHandleUrl(url, en) ==
    /\ seenCount' = IF enabled THEN Bump(seenCount, url) ELSE seenCount
    /\ IF HandleUrlRuns(url, en, processedUrls)
       THEN /\ processedUrls' = processedUrls \cup {url}
            /\ IF Forwards(parseDeepLink(url))
               THEN /\ cbCount' = IF enabled THEN Bump(cbCount, url) ELSE cbCount
                    /\ cbOff' = IF enabled THEN cbOff ELSE cbOff + 1
                    /\ IF SlotAccepts(parseDeepLink(url))
                       THEN SetPending(parseDeepLink(url))
                       ELSE UNCHANGED slotVars
               ELSE UNCHANGED <<cbCount, cbOff, slotVars>>
       ELSE UNCHANGED <<processedUrls, cbCount, cbOff, slotVars>>
    /\ UNCHANGED cbPast

\* checkInitialUrl of activation a resolves (lines 163-173); the closure it
\* calls belongs to the render that started it, where enabled was true
HookInitialUrl(a) ==
    /\ a \in hookInit
    /\ hookInit' = hookInit \ {a}
    /\ IF Truthy(launchUrl)
       THEN HookHandleUrl(launchUrl, TRUE)
       ELSE UNCHANGED <<processedUrls, logVars, slotVars>>
    /\ UNCHANGED <<storage, authVars, bootPc, launchUrl, authInitPc, enabled,
                   activation, subscribed, nToggles, navVars, procs, fetchVars,
                   logoutVars, liveLog, faults, clientVars>>
    /\ UNCHANGED <<oauthOpens, parseVars>>

\* enabled becomes false: the listener effect's cleanup removes the
\* subscription (lines 183-186) and the clearing effect runs (lines 190-194)
Disable ==
    /\ enabled
    /\ nToggles < MaxToggles
    /\ enabled' = FALSE
    /\ subscribed' = FALSE
    /\ processedUrls' = {}
    /\ nToggles' = nToggles + 1
    /\ cbPast' = cbPast \cup {u \in Urls : cbCount[u] > 0}
    /\ UNCHANGED <<storage, authVars, slotVars, bootPc, launchUrl, authInitPc,
                   hookInit, activation, cbCount, seenCount, cbOff, navVars,
                   procs, fetchVars, logoutVars, liveLog, faults, clientVars>>
    /\ UNCHANGED <<oauthOpens, parseVars>>

\* enabled becomes true: the listener effect runs again (lines 154-181)
Enable ==
    /\ ~enabled
    /\ nToggles < MaxToggles
    /\ enabled' = TRUE
    /\ activation' = activation + 1
    /\ subscribed' = TRUE
    /\ hookInit' = hookInit \cup {activation + 1}
    /\ nToggles' = nToggles + 1
    /\ cbCount' = NoCalls
    /\ seenCount' = NoCalls
    /\ UNCHANGED <<storage, authVars, slotVars, bootPc, launchUrl, authInitPc,
                   processedUrls, cbOff, cbPast, navVars, procs, fetchVars,
                   logoutVars, liveLog, faults, clientVars>>
    /\ UNCHANGED <<oauthOpens, parseVars>>

\* AuthProvider.checkInitialDeepLink (lines 112-131): the 100 ms timer has
\* fired and getInitialURL has resolved
AuthInitialUrl ==
    /\ authInitPc = "timer"
    /\ authInitPc' = "done"
    /\ IF SelfCheckAccepts(launchUrl)
       THEN SetPending(parseDeepLink(launchUrl))
       ELSE UNCHANGED slotVars
    /\ UNCHANGED <<storage, authVars, bootPc, launchUrl, hookVars, logVars,
                   navVars, procs, fetchVars, logoutVars, liveLog, faults,
                   clientVars>>
    /\ UNCHANGED <<oauthOpens, parseVars>>

-----------------------------------------------------------------------------
(* LoginPage *)

\* a validation that looks at the token only
MissingToken(params) == ~Truthy(params.token)

\* processAuthSuccess, line 43: !params.athleteId || !params.token
MissingParams(params) == ~Truthy(params.athleteId) \/ ~Truthy(params.token)

\* processAuthSuccess, lines 58-63: the user handed to login
NewUser(params) ==
    [athleteId |-> parseInt(params.athleteId),
     firstName |-> Or(params.firstName, <<>>),
     lastName  |-> Or(params.lastName, <<>>),
     profile   |-> Or(params.profile, <<>>)]

\* the outcomes of a group of setItem calls, as the set of keys written: all
\* of them, or all but the one whose write fails
WriteOutcomes(keys) ==
    IF MayFail THEN {keys} \cup {keys \ {k} : k \in keys} ELSE {keys}

Proc(result, origin, ev, pc, ok) ==
    [kind |-> result.type, origin |-> origin, ev |-> ev, url |-> result.rawUrl,
     params |-> result.params, pc |-> pc, ok |-> ok]

\* a processAuthError that opens the OAuth URL again by itself
ProcessRetriesOnError(result, origin, ev) ==
    IF result.type = "auth-success"
    THEN IF MissingParams(result.params)
         THEN /\ procs' = Append(procs, Proc(result, origin, ev, "invalid", FALSE))
              /\ UNCHANGED <<storage, faults, loggedOut, oauthOpens>>
         ELSE \E ok \in WriteOutcomes(LoginKeys) :
                /\ storage' = LoginWrites(storage, result.params.token,
                                          NewUser(result.params), ok)
                /\ procs' = Append(procs, Proc(result, origin, ev, "login",
                                               ok = LoginKeys))
                /\ faults' = IF ok = LoginKeys THEN faults ELSE Append(faults, "write")
                /\ loggedOut' = FALSE
                /\ UNCHANGED oauthOpens
    ELSE /\ procs' = Append(procs, Proc(result, origin, ev, "error", FALSE))
         /\ oauthOpens' = oauthOpens + 1
         /\ UNCHANGED <<storage, faults, loggedOut>>

\* processAuthSuccess up to its first await (lines 38-58, with login up to
\* line 145: the four writes are issued), or processAuthError (lines 127-135)
Process(result, origin, ev) ==
    IF result.type = "auth-success"
    THEN IF MissingParams(result.params)
         THEN /\ procs' = Append(procs, Proc(result, origin, ev, "invalid", FALSE))
              /\ UNCHANGED <<storage, faults, loggedOut, oauthOpens>>
         ELSE \E ok \in WriteOutcomes(LoginKeys) :
                /\ storage' = LoginWrites(storage, result.params.token,
                                          NewUser(result.params), ok)
                /\ procs' = Append(procs, Proc(result, origin, ev, "login",
                                               ok = LoginKeys))
                /\ faults' = IF ok = LoginKeys THEN faults ELSE Append(faults, "write")
                /\ loggedOut' = FALSE
                /\ UNCHANGED oauthOpens
    ELSE /\ procs' = Append(procs, Proc(result, origin, ev, "error", FALSE))
         /\ UNCHANGED <<storage, faults, loggedOut, oauthOpens>>

\* LoginPage's own handleUrl (lines 156-165)
LoginHandleUrl(url, origin) ==
    IF parseDeepLink(url).type \in {"auth-success", "auth-error"}
    THEN Process(parseDeepLink(url), origin, 0)
    ELSE UNCHANGED <<procs, storage, faults, loggedOut, oauthOpens>>

\* an effect that processes the slot's result and leaves it in the slot
PendingEffectKeepsSlot ==
    /\ Len(procs) < MaxProcs
    /\ loginMounted
    /\ pendingDeepLink # <<>>
    /\ Process(pendingDeepLink[1].result, "slot", pendingDeepLink[1].id)
    /\ UNCHANGED <<authVars, slotVars, bootPc, launchUrl, authInitPc, hookVars,
                   logVars, navVars, fetchVars, logoutPc, nLogout, liveLog,
                   clientVars>>
    /\ UNCHANGED parseVars

\* the pending-deep-link effect (lines 138-150)
PendingEffect ==
    /\ Len(procs) < MaxProcs
    /\ loginMounted
    /\ pendingDeepLink # <<>>
    /\ Process(pendingDeepLink[1].result, "slot", pendingDeepLink[1].id)
    /\ pendingDeepLink' = <<>>
    /\ UNCHANGED <<authVars, nEvents, dropped, bootPc, launchUrl, authInitPc, hookVars,
                   logVars, navVars, fetchVars, logoutPc, nLogout, liveLog,
                   clientVars>>
    /\ UNCHANGED parseVars

\* LoginPage.checkInitialUrl resolves (lines 168-178)
LoginInitialUrl ==
    /\ Len(procs) < MaxProcs
    /\ loginInit > 0
    /\ loginInit' = loginInit - 1
    /\ IF Truthy(launchUrl) /\ includes(launchUrl, "auth-success")
       THEN LoginHandleUrl(launchUrl, "launch")
       ELSE UNCHANGED <<procs, storage, faults, loggedOut, oauthOpens>>
    /\ UNCHANGED <<authVars, slotVars, bootPc, launchUrl, authInitPc, hookVars,
                   logVars, route, loginMounted, mainMounted, fetchVars,
                   logoutPc, nLogout, liveLog, clientVars>>
    /\ UNCHANGED parseVars

\* the OS emits a 'url' event: every registered listener runs in turn, the
\* useDeepLink subscription (useDeepLink line 178), LoginPage's direct
\* listener (LoginPage line 182) and the navigation container's linking
LiveUrl(url) ==
    /\ Len(procs) < MaxProcs
    /\ Len(liveLog) < MaxLive
    /\ liveLog' = Append(liveLog, [url |-> url, mounted |-> loginMounted,
                                   auth |-> isAuthenticated])
    /\ IF subscribed
       THEN HookHandleUrl(url, TRUE)
       ELSE UNCHANGED <<processedUrls, logVars, slotVars>>
    /\ IF loginMounted
       THEN LoginHandleUrl(url, "live")
       ELSE UNCHANGED <<procs, storage, faults, loggedOut, oauthOpens>>
    /\ IF route = "MainTabs" /\ LinkingRoute(url) = "Login"
       THEN /\ route' = "Login"
            /\ loginMounted' = TRUE
            /\ loginInit' = loginInit + 1
            /\ UNCHANGED mainMounted
       ELSE UNCHANGED navVars
    /\ UNCHANGED <<authVars, bootPc, launchUrl, authInitPc, hookInit, enabled,
                   activation, subscribed, nToggles, fetchVars, logoutPc,
                   nLogout, clientVars>>
    /\ UNCHANGED parseVars

\* the user presses the connect button: handleStravaConnect opens the OAuth
\* URL in the browser (lines 190-202)
StravaConnect ==
    /\ loginMounted
    /\ oauthOpens < MaxOAuth
    /\ oauthOpens' = oauthOpens + 1
    /\ UNCHANGED <<storage, authVars, slotVars, bootPc, launchUrl, authInitPc,
                   hookVars, logVars, navVars, procs, fetchVars, logoutVars,
                   liveLog, faults, clientVars>>
    /\ UNCHANGED parseVars

SetPc(i, pc) == [procs EXCEPT ![i].pc = pc]

\* login resumes after its writes (AuthContext lines 147-154) and
\* processAuthSuccess after login (LoginPage lines 65-72 or 116-122)
LoginResolve(i) ==
    /\ i \in DOMAIN procs
    /\ procs[i].pc = "login"
    /\ LoginSettle(procs[i].ok, procs[i].params.token, NewUser(procs[i].params))
    /\ procs' = SetPc(i, IF procs[i].ok THEN "profile" ELSE "failed")
    /\ UNCHANGED <<storage, isLoading, slotVars, bootPc, launchUrl, authInitPc,
                   hookVars, logVars, navVars, fetchVars, logoutVars, liveLog,
                   faults, clientVars>>
    /\ UNCHANGED <<oauthOpens, parseVars>>

PrefetchKey(pc) ==
    CASE pc = "profile" -> "athleteProfile"
      [] pc = "stats" -> "athleteStats"
      [] pc = "activities" -> "athleteActivities"

PrefetchData(pc) ==
    CASE pc = "profile" -> ApiProfile
      [] pc = "stats" -> ApiStats
      [] pc = "activities" -> ApiActivities

\* a chain that gives up when the stats step is over
PrefetchNextAborts(pc) ==
    CASE pc = "profile" -> "stats"
      [] pc = "stats" -> "failed"
      [] pc = "activities" -> "timer"

PrefetchNext(pc) ==
    CASE pc = "profile" -> "stats"
      [] pc = "stats" -> "activities"
      [] pc = "activities" -> "timer"

\* apiService.cacheAthleteProfile / Stats / Activities (apiService lines 406-426)
CacheWrite(st, key, data) == [st EXCEPT ![key] = <<data>>]

\* one prefetch step of processAuthSuccess (lines 70-101): the fetch resolves
\* and, when it succeeded with data, the cache write is issued; a failed
\* fetch, success:false or a failed write is skipped
Prefetch(i) ==
    /\ i \in DOMAIN procs
    /\ procs[i].pc \in {"profile", "stats", "activities"}
    /\ procs' = SetPc(i, PrefetchNext(procs[i].pc))
    /\ \/ storage' = CacheWrite(storage, PrefetchKey(procs[i].pc),
                                PrefetchData(procs[i].pc))
       \/ UNCHANGED storage
    /\ UNCHANGED <<authVars, slotVars, bootPc, launchUrl, authInitPc, hookVars,
                   logVars, navVars, fetchVars, logoutVars, liveLog, faults,
                   clientVars>>
    /\ UNCHANGED <<oauthOpens, parseVars>>

\* the 500 ms timer of processAuthSuccess fires (lines 108-114)
NavTimer(i) ==
    /\ i \in DOMAIN procs
    /\ procs[i].pc = "timer"
    /\ procs' = SetPc(i, "done")
    /\ route' = "MainTabs"
    /\ loginMounted' = FALSE
    /\ mainMounted' = TRUE
    /\ UNCHANGED <<storage, authVars, slotVars, bootPc, launchUrl, authInitPc,
                   hookVars, logVars, loginInit, fetchVars, logoutVars, liveLog,
                   faults, clientVars>>
    /\ UNCHANGED <<oauthOpens, parseVars>>

-----------------------------------------------------------------------------
(* ProfileScreen.handleLogout and AuthProvider.logout *)

\* the user presses Log Out: logout up to its await (AuthContext lines 157-167)
Logout ==
    /\ route = "MainTabs"
    /\ logoutPc = "idle"
    /\ nLogout < MaxLogout
    /\ nLogout' = nLogout + 1
    /\ \/ /\ storage' = LogoutRemoves(storage)
          /\ logoutPc' = "removing"
          /\ UNCHANGED faults
       \/ /\ MayFail
          /\ faults' = Append(faults, "remove")
          /\ logoutPc' = "failing"
          /\ UNCHANGED storage
    /\ UNCHANGED <<authVars, slotVars, bootPc, launchUrl, authInitPc, hookVars,
                   logVars, navVars, procs, fetchVars, loggedOut, liveLog,
                   clientVars>>
    /\ UNCHANGED <<oauthOpens, parseVars>>

\* logout resumes (AuthContext lines 169-176; ProfileScreen lines 70-76)
LogoutResolve ==
    /\ logoutPc # "idle"
    /\ logoutPc' = "idle"
    /\ LogoutSettle(logoutPc = "removing")
    /\ loggedOut' = (loggedOut \/ logoutPc = "removing")
    /\ UNCHANGED <<storage, isLoading, slotVars, bootPc, launchUrl, authInitPc,
                   hookVars, logVars, navVars, procs, fetchVars, nLogout,
                   liveLog, faults, clientVars>>
    /\ UNCHANGED <<oauthOpens, parseVars>>

-----------------------------------------------------------------------------
(* useAthleteData.fetchData *)

\* fetchData is called (lines 101-120): by the effect of lines 190-196 or by
\* refresh, in a screen of MainTabs
FetchStart ==
    /\ mainMounted
    /\ fetchPc = "idle"
    /\ nFetch < MaxFetch
    /\ user # <<>>
    /\ user[1].athleteId # 0 /\ user[1].athleteId # NaN
    /\ fetchPc' = "cached"
    /\ nFetch' = nFetch + 1
    /\ UNCHANGED <<storage, authVars, slotVars, bootPc, launchUrl, authInitPc,
                   hookVars, logVars, navVars, procs, fetchLeft, logoutVars,
                   liveLog, faults, clientVars>>
    /\ UNCHANGED <<oauthOpens, parseVars>>

\* the cached reads resolve (lines 116-135)
FetchCached ==
    /\ fetchPc = "cached"
    /\ \/ fetchPc' = "network"
       \/ /\ ProfileUnparseable(storage)
          /\ fetchPc' = "idle"
    /\ UNCHANGED <<storage, authVars, slotVars, bootPc, launchUrl, authInitPc,
                   hookVars, logVars, navVars, procs, fetchLeft, nFetch,
                   logoutVars, liveLog, faults, clientVars>>
    /\ UNCHANGED <<oauthOpens, parseVars>>

FetchOrder == <<"athleteProfile", "athleteStats", "athleteActivities">>

FetchData(key) ==
    CASE key = "athleteProfile" -> ApiProfile
      [] key = "athleteStats" -> ApiStats
      [] key = "athleteActivities" -> ApiActivities

\* the keys of FetchOrder that are in got, in order
RECURSIVE Selected(_, _)
Selected(order, got) ==
    IF order = <<>> THEN <<>>
    ELSE IF order[1] \in got THEN <<order[1]>> \o Selected(Tail(order), got)
    ELSE Selected(Tail(order), got)

\* issue the next cache write, if any (lines 146-154)
FetchIssue(left) ==
    IF left = <<>>
    THEN /\ fetchPc' = "idle"
         /\ fetchLeft' = <<>>
         /\ UNCHANGED storage
    ELSE /\ fetchPc' = "writing"
         /\ fetchLeft' = Tail(left)
         /\ storage' = CacheWrite(storage, left[1], FetchData(left[1]))

\* the three requests resolve (lines 131-146), or one of them throws
FetchNetwork ==
    /\ fetchPc = "network"
    /\ \/ \E got \in SUBSET {"athleteProfile", "athleteStats", "athleteActivities"} :
            FetchIssue(Selected(FetchOrder, got))
       \/ /\ fetchPc' = "idle"
          /\ UNCHANGED <<fetchLeft, storage>>
    /\ UNCHANGED <<authVars, slotVars, bootPc, launchUrl, authInitPc, hookVars,
                   logVars, navVars, procs, nFetch, logoutVars, liveLog, faults,
                   clientVars>>
    /\ UNCHANGED <<oauthOpens, parseVars>>

\* a cache write resolves and fetchData goes on (lines 146-167)
FetchWrite ==
    /\ fetchPc = "writing"
    /\ FetchIssue(fetchLeft)
    /\ UNCHANGED <<authVars, slotVars, bootPc, launchUrl, authInitPc, hookVars,
                   logVars, navVars, procs, nFetch, logoutVars, liveLog, faults,
                   clientVars>>
    /\ UNCHANGED <<oauthOpens, parseVars>>

-----------------------------------------------------------------------------
(* The application *)

AppInit ==
    /\ storage \in {EmptyStorage, StoredSession}
    /\ isLoading = TRUE
    /\ isAuthenticated = FALSE
    /\ user = <<>>
    /\ token = Null
    /\ pendingDeepLink = <<>>
    /\ nEvents = 0
    /\ dropped = {}
    /\ bootPc = "read"
    /\ launchUrl \in LaunchUrls
    /\ authInitPc = "timer"
    /\ hookInit = {1}
    /\ processedUrls = {}
    /\ enabled = TRUE
    /\ activation = 1
    /\ subscribed = TRUE
    /\ nToggles = 0
    /\ cbCount = NoCalls
    /\ seenCount = NoCalls
    /\ cbOff = 0
    /\ cbPast = {}
    /\ route = "Loading"
    /\ loginMounted = FALSE
    /\ mainMounted = FALSE
    /\ loginInit = 0
    /\ oauthOpens = 0
    /\ procs = <<>>
    /\ fetchPc = "idle"
    /\ fetchLeft = <<>>
    /\ nFetch = 0
    /\ logoutPc = "idle"
    /\ nLogout = 0
    /\ loggedOut = FALSE
    /\ liveLog = <<>>
    /\ faults = <<>>
    /\ client = <<>>
    /\ hist = <<>>
    /\ restarts = <<>>

Init == AppInit /\ parseIn = Null /\ parseOut = <<>>

Next ==
    \/ CheckAuthRead
    \/ CheckAuthProfile
    \/ HookInitialUrl(1)
    \/ AuthInitialUrl
    \/ LoginInitialUrl
    \/ PendingEffect
    \/ \E url \in LiveUrls : LiveUrl(url)
    \/ \E i \in 1..MaxProcs : LoginResolve(i)
    \/ \E i \in 1..MaxProcs : Prefetch(i)
    \/ \E i \in 1..MaxProcs : NavTimer(i)
    \/ Logout
    \/ LogoutResolve
    \/ StravaConnect

Spec == Init /\ [][Next]_vars

\* Every promise and timer the program is waiting for settles, and every
\* effect React has scheduled runs; the OS and the user (LiveUrl, Logout) are
\* under no obligation.
Fairness ==
    /\ WF_vars(CheckAuthRead)
    /\ WF_vars(CheckAuthProfile)
    /\ WF_vars(HookInitialUrl(1))
    /\ WF_vars(AuthInitialUrl)
    /\ WF_vars(LoginInitialUrl)
    /\ WF_vars(PendingEffect)
    /\ WF_vars(LogoutResolve)
    /\ \A i \in 1..MaxProcs :
         WF_vars(LoginResolve(i)) /\ WF_vars(Prefetch(i)) /\ WF_vars(NavTimer(i))

\* the application started from its icon: no launch URL
LiveInit == Init /\ launchUrl = Null

FairSpec == LiveInit /\ [][Next]_vars /\ Fairness

-----------------------------------------------------------------------------
(* The application receiving callback URLs whose athleteId is not a decimal *)
(* integer                                                                  *)

IdInit == Init /\ launchUrl = Null

IdNext ==
    \/ CheckAuthRead
    \/ CheckAuthProfile
    \/ HookInitialUrl(1)
    \/ AuthInitialUrl
    \/ LoginInitialUrl
    \/ PendingEffect
    \/ \E url \in IdUrls : LiveUrl(url)
    \/ \E i \in 1..MaxProcs : LoginResolve(i)
    \/ \E i \in 1..MaxProcs : Prefetch(i)
    \/ \E i \in 1..MaxProcs : NavTimer(i)
    \/ Logout
    \/ LogoutResolve
    \/ StravaConnect

IdSpec == IdInit /\ [][IdNext]_vars

-----------------------------------------------------------------------------
(* The application with its data screens and no deep link: bootstrap,       *)
(* useAthleteData and logout                                                *)

DataInit == Init /\ launchUrl = Null

DataNext ==
    \/ CheckAuthRead
    \/ CheckAuthProfile
    \/ HookInitialUrl(1)
    \/ AuthInitialUrl
    \/ LoginInitialUrl
    \/ Logout
    \/ LogoutResolve
    \/ FetchStart
    \/ FetchCached
    \/ FetchNetwork
    \/ FetchWrite

DataSpec == DataInit /\ [][DataNext]_vars

-----------------------------------------------------------------------------
(* AuthProvider driven directly by a consumer that calls login and logout   *)
(* one call at a time, over any stored state                                *)

MaxCalls == 2

StoredTokens == {Absent, <<(<<>>)>>, <<(<<"o", "l", "d">>)>>}
StoredIds == {Absent, <<(<<>>)>>, <<(<<"7">>)>>}
StoredFlags == {Absent, <<(<<"true">>)>>, <<(<<"false">>)>>}
StoredProfiles ==
    {Absent, <<ProfileJson(<<"S">>, <<>>, <<>>, Null)>>,
     <<[ProfileJson(<<>>, <<>>, <<>>, Null) EXCEPT !.valid = FALSE]>>}
StoredCaches == {Absent, <<(<<"old">>)>>}

StoredStates ==
    {[k \in Keys |->
        CASE k = "authToken" -> t [] k = "athleteId" -> a [] k = "isLoggedIn" -> f
          [] k = "athleteProfile" -> p [] k = "athleteStats" -> c
          [] k = "athleteActivities" -> d] :
      t \in StoredTokens, a \in StoredIds, f \in StoredFlags,
      p \in StoredProfiles, c \in StoredCaches, d \in StoredCaches}

ClientTokens == {<<"a", "b", "c">>}
ClientUsers ==
    {[athleteId |-> 42, firstName |-> <<"J">>, lastName |-> <<>>, profile |-> <<>>]}

AuthInit ==
    /\ storage \in StoredStates
    /\ isLoading = TRUE
    /\ isAuthenticated = FALSE
    /\ user = <<>>
    /\ token = Null
    /\ pendingDeepLink = <<>>
    /\ nEvents = 0
    /\ dropped = {}
    /\ bootPc = "read"
    /\ launchUrl = Null
    /\ authInitPc = "timer"
    /\ hookInit = {1}
    /\ processedUrls = {}
    /\ enabled = TRUE
    /\ activation = 1
    /\ subscribed = TRUE
    /\ nToggles = 0
    /\ cbCount = NoCalls
    /\ seenCount = NoCalls
    /\ cbOff = 0
    /\ cbPast = {}
    /\ route = "Loading"
    /\ loginMounted = FALSE
    /\ mainMounted = FALSE
    /\ loginInit = 0
    /\ oauthOpens = 0
    /\ procs = <<>>
    /\ fetchPc = "idle"
    /\ fetchLeft = <<>>
    /\ nFetch = 0
    /\ logoutPc = "idle"
    /\ nLogout = 0
    /\ loggedOut = FALSE
    /\ liveLog = <<>>
    /\ faults = <<>>
    /\ client = <<>>
    /\ hist = <<>>
    /\ restarts = <<>>
    /\ parseIn = Null
    /\ parseOut = <<>>

Session == [isAuthenticated |-> isAuthenticated, user |-> user, token |-> token]

\* a call in flight: its arguments, whether its storage operation succeeded,
\* and the stored and in-memory state it found
Call(op, ok, newToken, newUser) ==
    [op |-> op, ok |-> ok, token |-> newToken, user |-> newUser,
     before |-> storage, was |-> Session]

\* a consumer calls login (AppNavigator renders consumers once isLoading is
\* false, App line 48): login up to its await
ClientLogin(newToken, newUser) ==
    /\ ~isLoading
    /\ client = <<>>
    /\ Len(hist) < MaxCalls
    /\ \E ok \in WriteOutcomes(LoginKeys) :
         /\ storage' = LoginWrites(storage, newToken, newUser, ok)
         /\ client' = <<Call("login", ok = LoginKeys, newToken, <<newUser>>)>>
         /\ faults' = IF ok = LoginKeys THEN faults ELSE Append(faults, "write")
    /\ UNCHANGED <<authVars, slotVars, bootPc, launchUrl, authInitPc, hookVars,
                   logVars, navVars, procs, fetchVars, logoutVars, liveLog, hist,
                   restarts>>
    /\ UNCHANGED <<oauthOpens, parseVars>>

\* login resumes
ClientLoginResolve ==
    /\ client # <<>>
    /\ client[1].op = "login"
    /\ LoginSettle(client[1].ok, client[1].token, client[1].user[1])
    /\ client' = <<>>
    /\ hist' = Append(hist, client[1])
    /\ UNCHANGED restarts
    /\ UNCHANGED <<storage, isLoading, slotVars, bootPc, launchUrl, authInitPc,
                   hookVars, logVars, navVars, procs, fetchVars, logoutVars,
                   liveLog, faults>>
    /\ UNCHANGED <<oauthOpens, parseVars>>

\* a consumer calls logout: logout up to its await
ClientLogout ==
    /\ ~isLoading
    /\ client = <<>>
    /\ Len(hist) < MaxCalls
    /\ \/ /\ storage' = LogoutRemoves(storage)
          /\ client' = <<Call("logout", TRUE, Null, <<>>)>>
          /\ UNCHANGED faults
       \/ /\ MayFail
          /\ faults' = Append(faults, "remove")
          /\ client' = <<Call("logout", FALSE, Null, <<>>)>>
          /\ UNCHANGED storage
    /\ UNCHANGED <<authVars, slotVars, bootPc, launchUrl, authInitPc, hookVars,
                   logVars, navVars, procs, fetchVars, logoutVars, liveLog, hist,
                   restarts>>
    /\ UNCHANGED <<oauthOpens, parseVars>>

\* logout resumes
ClientLogoutResolve ==
    /\ client # <<>>
    /\ client[1].op = "logout"
    /\ LogoutSettle(client[1].ok)
    /\ client' = <<>>
    /\ hist' = Append(hist, client[1])
    /\ UNCHANGED restarts
    /\ UNCHANGED <<storage, isLoading, slotVars, bootPc, launchUrl, authInitPc,
                   hookVars, logVars, navVars, procs, fetchVars, logoutVars,
                   liveLog, faults>>
    /\ UNCHANGED <<oauthOpens, parseVars>>

AuthNext ==
    \/ CheckAuthRead
    \/ CheckAuthProfile
    \/ \E t \in ClientTokens, u \in ClientUsers : ClientLogin(t, u)
    \/ ClientLoginResolve
    \/ ClientLogout
    \/ ClientLogoutResolve

AuthSpec == AuthInit /\ [][AuthNext]_vars

-----------------------------------------------------------------------------
(* AuthProvider driven directly, with the app killed and started again:     *)
(* a fresh AuthProvider bootstraps over the storage the last run left       *)

MaxRestarts == 1

RestartTokens == ClientTokens \cup {<<"x", "y", "z">>}
RestartUsers ==
    ClientUsers \cup
        {[athleteId |-> 7, firstName |-> <<>>, lastName |-> <<>>, profile |-> <<>>]}

RestartInit == AuthInit /\ storage \in {EmptyStorage, StoredSession}

\* the app starts again: AuthProvider mounts with its initial state (lines
\* 36-40) and checkAuth runs (lines 43-94); storage is what it was
Restart ==
    /\ client = <<>>
    /\ hist # <<>>
    /\ Len(restarts) < MaxRestarts
    /\ restarts' = Append(restarts, [calls |-> Len(hist), faults |-> Len(faults)])
    /\ isLoading' = TRUE
    /\ isAuthenticated' = FALSE
    /\ user' = <<>>
    /\ token' = Null
    /\ bootPc' = "read"
    /\ route' = "Loading"
    /\ loginMounted' = FALSE
    /\ mainMounted' = FALSE
    /\ loginInit' = 0
    /\ UNCHANGED <<storage, slotVars, launchUrl, authInitPc, hookVars, logVars,
                   procs, fetchVars, logoutVars, liveLog, faults, client, hist,
                   oauthOpens, parseVars>>

\* cacheAthleteProfile(profile) of the LoginPage prefetch or of useAthleteData
\* (apiService lines 406-408): the athleteProfile key takes the API's profile
CacheProfile ==
    /\ isAuthenticated
    /\ client = <<>>
    /\ storage["athleteProfile"] # <<ApiProfile>>
    /\ storage' = CacheWrite(storage, "athleteProfile", ApiProfile)
    /\ UNCHANGED <<authVars, slotVars, bootPc, launchUrl, authInitPc, hookVars,
                   logVars, navVars, procs, fetchVars, logoutVars, liveLog,
                   faults, clientVars, oauthOpens, parseVars>>

RestartNext ==
    \/ CheckAuthRead
    \/ CheckAuthProfile
    \/ \E t \in RestartTokens, u \in RestartUsers : ClientLogin(t, u)
    \/ ClientLoginResolve
    \/ ClientLogout
    \/ ClientLogoutResolve
    \/ CacheProfile
    \/ Restart

RestartSpec == RestartInit /\ [][RestartNext]_vars

-----------------------------------------------------------------------------
(* useDeepLink under a parent that changes `enabled`, with                  *)
(* AuthProvider.handleDeepLink as its callback                              *)

MaxHookLive == 3

HookInit == Init /\ storage = EmptyStorage

\* the OS emits a 'url' event and the subscription of useDeepLink, if there
\* is one, takes it (lines 178-181)
HookUrlEvent(url) ==
    /\ Len(liveLog) < MaxHookLive
    /\ liveLog' = Append(liveLog, [url |-> url, mounted |-> loginMounted,
                                   auth |-> isAuthenticated])
    /\ IF subscribed
       THEN HookHandleUrl(url, TRUE)
       ELSE UNCHANGED <<processedUrls, logVars, slotVars>>
    /\ UNCHANGED <<storage, authVars, bootPc, launchUrl, authInitPc, hookInit,
                   enabled, activation, subscribed, nToggles, navVars, procs,
                   fetchVars, logoutVars, faults, clientVars>>
    /\ UNCHANGED <<oauthOpens, parseVars>>

HookNext ==
    \/ \E a \in 1..(MaxToggles + 1) : HookInitialUrl(a)
    \/ \E url \in LiveUrls : HookUrlEvent(url)
    \/ Disable
    \/ Enable

HookSpec == HookInit /\ [][HookNext]_vars

-----------------------------------------------------------------------------
(* parseDeepLink called on its own: on null, on every string of at most     *)
(* MaxUrlLen lexemes, and on every callback URL built from the six keys     *)

ParseAlphabet ==
    {Scheme, "https://", "auth-success", "auth-error", "?", "athleteId", "=",
     "4", "&"}

StringsUpTo(n) == UNION {[1..k -> ParseAlphabet] : k \in 0..n}

\* the six query keys parseDeepLink reads (lines 84-91), in the order the
\* callback URL carries them
QueryKeys == <<"athleteId", "token", "firstName", "lastName", "profile", "error">>

\* what a key can carry in the URL: nothing at all (Null), an empty value,
\* plain text, an escaped percent sign (alone or before "41"), or a "%" that
\* starts no escape
RawValues == {Null, <<>>, <<"4">>, <<"%", "25">>, <<"%", "25", "41">>, <<"%">>}

QueryHosts == {"auth-success", "auth-error"}

\* key=value pairs of the keys from position i on that are present, joined by "&"
RECURSIVE JoinPairs(_, _, _)
JoinPairs(raw, i, first) ==
    IF i > Len(QueryKeys) THEN <<>>
    ELSE IF raw[i] = Null THEN JoinPairs(raw, i + 1, first)
    ELSE (IF first THEN <<>> ELSE <<"&">>) \o <<QueryKeys[i], "=">> \o raw[i]
             \o JoinPairs(raw, i + 1, FALSE)

\* ifitclub://<host>?<pairs>
QueryUrl(host, raw) == <<Scheme, host, "?">> \o JoinPairs(raw, 1, TRUE)

QueryUrls ==
    {QueryUrl(h, raw) : h \in QueryHosts, raw \in [1..Len(QueryKeys) -> RawValues]}

ParseInputs == {Null} \cup StringsUpTo(MaxUrlLen) \cup QueryUrls

ParseInit ==
    /\ AppInit
    /\ storage = EmptyStorage
    /\ launchUrl = Null
    /\ parseIn \in ParseInputs
    /\ parseOut = <<>>

\* parseDeepLink(url) returns (lines 27-119)
Parse ==
    /\ parseOut = <<>>
    /\ parseOut' = <<parseDeepLink(parseIn)>>
    /\ UNCHANGED <<storage, authVars, slotVars, bootPc, launchUrl, authInitPc,
                   hookVars, logVars, navVars, procs, fetchVars, logoutVars,
                   liveLog, faults, clientVars, oauthOpens, parseIn>>

ParseNext == Parse

ParseSpec == ParseInit /\ [][ParseNext]_vars

-----------------------------------------------------------------------------
(* Properties *)

\* login was called by this invocation of processAuthSuccess
CalledLogin(p) == p.kind = "auth-success" /\ p.pc # "invalid"

LoginCalls(url) ==
    Cardinality({i \in DOMAIN procs : procs[i].url = url /\ CalledLogin(procs[i])})

LiveDeliveries(url) ==
    Cardinality({i \in DOMAIN liveLog : liveLog[i].url = url})

\* the OS delivered url exactly once: as the launch URL or as one live event
DeliveredOnce(url) ==
    (IF launchUrl = url THEN 1 ELSE 0) + LiveDeliveries(url) = 1

\* C1: an auth-success URL that the OS delivered once (as the launch URL or
\* as one live event) leads to at most one call of login, over all the paths
\* that react to it.
C1_LoginOncePerLink ==
    \A url \in Urls : DeliveredOnce(url) => LoginCalls(url) <= 1

LastCall == hist[Len(hist)]

AllAbsent == \A k \in Keys : ~Present(storage, k)

\* C2: login is all-or-nothing: once a login call has returned, either the
\* four keys hold its values and the session is the one it was given, or it
\* threw and storage and session are what they were before the call.
C2_LoginAllOrNothing ==
    (client = <<>> /\ hist # <<>> /\ LastCall.op = "login") =>
        \/ /\ LastCall.ok
           /\ \A k \in LoginKeys :
                storage[k] = <<LoginValue(k, LastCall.token, LastCall.user[1])>>
           /\ isAuthenticated /\ token = LastCall.token /\ user = LastCall.user
        \/ /\ ~LastCall.ok
           /\ storage = LastCall.before
           /\ Session = LastCall.was

\* C3: after logout has resolved, and until login is called again, none of
\* the six keys is in storage.
C3_LogoutLeavesNoKeys == loggedOut => AllAbsent

LoginThenLogout ==
    /\ client = <<>>
    /\ Len(hist) >= 2
    /\ hist[Len(hist) - 1].op = "login" /\ hist[Len(hist) - 1].ok
    /\ LastCall.op = "logout" /\ LastCall.ok

\* C4: a successful login followed at once by a successful logout leaves the
\* six keys absent and the session cleared, whatever storage held before.
C4_LoginLogoutLeavesNothing ==
    LoginThenLogout =>
        AllAbsent /\ ~isAuthenticated /\ token = Null /\ user = <<>>

\* login then logout have run over a storage that held cached data
C4_Witness ==
    /\ LoginThenLogout
    /\ Present(hist[Len(hist) - 1].before, "athleteStats")
    /\ Present(hist[Len(hist) - 1].before, "athleteActivities")

Forwardable == {u \in Urls : Forwards(parseDeepLink(u))}

\* C5: within one activation of useDeepLink, a URL that parses to
\* auth-success or auth-error and has reached the listener at least twice
\* has been handed to the callback exactly once in that activation.
C5_DuplicateDeliveredOnce ==
    \A u \in Forwardable :
        (enabled /\ seenCount[u] >= 2) => cbCount[u] = 1

\* C6: a URL that was handed to the callback in an earlier activation and
\* not yet in the present one is handed to it again by a live 'url' event
\* that arrives in the activation following a disable and an enable.
C6_RedeliveredAfterReactivation ==
    [][\A u \in Forwardable :
         (enabled /\ u \in cbPast /\ cbCount[u] = 0 /\ HookUrlEvent(u))
             => cbCount'[u] = 1]_vars

\* processAuthSuccess invocation i was started by LoginPage's listener for
\* the live link UrlOk, delivered after an unauthenticated bootstrap while
\* LoginPage was mounted; its four writes went through and login is pending
LiveLoginPending(i) ==
    IF i \in DOMAIN procs /\ liveLog # <<>>
    THEN /\ procs[i].origin = "live"
         /\ procs[i].url = UrlOk
         /\ procs[i].pc = "login"
         /\ procs[i].ok
         /\ bootPc = "done"
         /\ liveLog[1].mounted /\ ~liveLog[1].auth
    ELSE FALSE

SessionOf(url) ==
    IF user # <<>>
    THEN /\ isAuthenticated
         /\ token = parseDeepLink(url).params.token
         /\ user[1].athleteId = parseInt(parseDeepLink(url).params.athleteId)
    ELSE FALSE

Navigated(i) ==
    IF i \in DOMAIN procs
    THEN procs[i].pc = "done" /\ route = "MainTabs"
    ELSE FALSE

\* C7: after an unauthenticated bootstrap, with LoginPage mounted and the
\* storage writes succeeding, a live ifitclub://auth-success link with
\* athleteId 42 and a token leads to a state where isAuthenticated is true,
\* token is the link's token and user.athleteId is 42, and after that the
\* application navigates to MainTabs.
C7_LiveLinkLogsIn ==
    \A i \in 1..MaxProcs :
        LiveLoginPending(i) ~> (SessionOf(UrlOk) /\ <>Navigated(i))

\* the session of the link is committed and its navigation has happened
C7_Witness ==
    \E i \in DOMAIN procs :
        /\ procs[i].origin = "live" /\ procs[i].url = UrlOk /\ procs[i].ok
        /\ liveLog # <<>> /\ liveLog[1].mounted /\ ~liveLog[1].auth
        /\ Navigated(i)
        /\ SessionOf(UrlOk)
        /\ user[1].athleteId = 42

SlotProcs == {i \in DOMAIN procs : procs[i].origin = "slot"}

\* the invocations in procs' that the step started
Started == {i \in DOMAIN procs' : i \notin DOMAIN procs}

\* processing has begun and neither login nor a prefetch step has completed
JustStarted(p) == p.pc \in {"login", "invalid", "error"}

\* C8: every result taken from the pending slot is handed to
\* processAuthSuccess / processAuthError once: the step that starts
\* processing it empties the slot, before login or a prefetch has completed,
\* and no later step starts processing the same result again.
C8_SlotConsumedOnce ==
    /\ [](\A i, j \in SlotProcs : procs[i].ev = procs[j].ev => i = j)
    /\ [](pendingDeepLink # <<>> =>
            \A i \in SlotProcs : procs[i].ev # pendingDeepLink[1].id)
    /\ [][\A i \in Started :
            procs'[i].origin = "slot" =>
                /\ pendingDeepLink # <<>>
                /\ procs'[i].ev = pendingDeepLink[1].id
                /\ pendingDeepLink' = <<>>
                /\ JustStarted(procs'[i])]_vars

\* a result taken from the slot is being processed (its login has resolved,
\* a prefetch is in flight) while a later delivery sits in the slot
C8_Witness ==
    /\ pendingDeepLink # <<>>
    /\ \E i \in SlotProcs :
         /\ procs[i].pc \in {"profile", "stats", "activities"}
         /\ procs[i].ev < pendingDeepLink[1].id

\* C9: the pending slot holds at most one result, of type auth-success or
\* auth-error; it holds the latest one placed (last write wins), and a result
\* that was overwritten before it was consumed is never processed.
C9_SlotLastWriteWins ==
    /\ Len(pendingDeepLink) <= 1
    /\ pendingDeepLink # <<>> =>
          /\ pendingDeepLink[1].result.type \in {"auth-success", "auth-error"}
          /\ pendingDeepLink[1].id = nEvents
    /\ \A i \in SlotProcs : procs[i].ev \notin dropped

\* a first result was overwritten by a second one, which has been processed
C9_Witness ==
    /\ dropped # {}
    /\ \E i \in SlotProcs : \E d \in dropped : procs[i].ev > d

\* C10: processAuthSuccess on a result whose athleteId or token is null or
\* empty never calls login: the invocation ends at the validation alert, and
\* the step that runs it writes no storage key, leaves isAuthenticated as it
\* was and does not navigate to MainTabs.
Lacks(p) ==
    p.kind = "auth-success" /\ (p.params.athleteId \in {Null, <<>>} \/ p.params.token \in {Null, <<>>})

C10_MissingParamsNoLogin ==
    /\ [](\A i \in DOMAIN procs : Lacks(procs[i]) => procs[i].pc = "invalid")
    /\ [][\A i \in Started :
            Lacks(procs'[i])
                => /\ storage' = storage
                   /\ isAuthenticated' = isAuthenticated
                   /\ (route' = "MainTabs" => route = "MainTabs")]_vars

\* a success result with a token and no athleteId has been processed
C10_Witness ==
    \E i \in DOMAIN procs :
        /\ procs[i].kind = "auth-success"
        /\ procs[i].params.athleteId = Null
        /\ Truthy(procs[i].params.token)
        /\ procs[i].pc = "invalid"

PcOf(ps, i) == IF i \in DOMAIN ps THEN ps[i].pc ELSE "none"

\* the order of processAuthSuccess after login has resolved
AfterLogin ==
    {<<"profile", "stats">>, <<"stats", "activities">>,
     <<"activities", "timer">>, <<"timer", "done">>}

Prefetching(i) == PcOf(procs, i) \in {"profile", "stats", "activities"}

\* C11: once login has resolved inside processAuthSuccess, whatever each
\* prefetch step does (caches its data, or is skipped because the fetch
\* failed, returned success:false or the cache write failed), the invocation
\* goes through profile, stats, activities in that order, one at a time, never
\* reaches the error alert, no prefetch step changes isAuthenticated, token or
\* user, and the navigation to MainTabs eventually happens.
C11_PrefetchBestEffort ==
    /\ [][\A i \in 1..MaxProcs :
            (PcOf(procs, i) \in {"profile", "stats", "activities", "timer"}
                /\ PcOf(procs', i) # PcOf(procs, i))
              => /\ <<PcOf(procs, i), PcOf(procs', i)>> \in AfterLogin
                 /\ (Prefetching(i) => /\ isAuthenticated' = isAuthenticated
                                       /\ token' = token
                                       /\ user' = user)]_vars
    /\ \A i \in 1..MaxProcs : Prefetching(i) ~> Navigated(i)

\* an invocation has navigated after its stats step was skipped and its
\* profile and activities steps cached their data
C11_Witness ==
    \E i \in DOMAIN procs :
        /\ Navigated(i)
        /\ isAuthenticated
        /\ storage["athleteProfile"] = <<ApiProfile>>
        /\ storage["athleteStats"] = Absent
        /\ storage["athleteActivities"] = <<ApiActivities>>

LoginThrows(i) ==
    IF i \in DOMAIN procs
    THEN procs[i].kind = "auth-success" /\ procs[i].pc = "login" /\ ~procs[i].ok
    ELSE FALSE

\* C12: when login throws inside processAuthSuccess, the invocation ends in
\* its own catch (the error alert): it starts no prefetch step, sets no
\* navigation timer, and the step in which login rejects leaves
\* isAuthenticated, token, user and the route as they were.
C12_LoginFailureContained ==
    /\ [](\A i \in DOMAIN procs :
            ~procs[i].ok => procs[i].pc \in {"login", "failed", "invalid", "error"})
    /\ [][\A i \in 1..MaxProcs :
            (LoginThrows(i) /\ PcOf(procs', i) # "login")
              => /\ PcOf(procs', i) = "failed"
                 /\ isAuthenticated' = isAuthenticated
                 /\ token' = token
                 /\ user' = user
                 /\ route' = route]_vars

\* a login has thrown and the application is still unauthenticated on Login
C12_Witness ==
    /\ \E i \in DOMAIN procs : procs[i].kind = "auth-success" /\ procs[i].pc = "failed"
    /\ ~isAuthenticated /\ token = Null /\ user = <<>>
    /\ route = "Login"

\* C13: processAuthError ends at its alert: the step that runs it calls no
\* login, writes no storage key, leaves isAuthenticated, token, user and the
\* route as they were and does not open the OAuth URL; the OAuth URL is
\* opened only by a press of the connect button on the mounted LoginPage.
C13_AuthErrorOnlyAlerts ==
    /\ [](\A i \in DOMAIN procs :
            procs[i].kind = "auth-error" => procs[i].pc = "error")
    /\ [][\A i \in Started :
            procs'[i].kind = "auth-error"
              => /\ storage' = storage
                 /\ isAuthenticated' = isAuthenticated
                 /\ token' = token
                 /\ user' = user
                 /\ route' = route
                 /\ oauthOpens' = oauthOpens]_vars
    /\ [][oauthOpens' # oauthOpens => loginMounted /\ procs' = procs]_vars

\* an auth-error result has been processed; the application is still
\* unauthenticated on Login and the OAuth URL was not opened
C13_Witness ==
    /\ \E i \in DOMAIN procs : procs[i].kind = "auth-error" /\ procs[i].pc = "error"
    /\ ~isAuthenticated
    /\ route = "Login"
    /\ oauthOpens = 0

\* checkAuth has finished and neither login nor logout has been called
Booted == bootPc = "done" /\ hist = <<>> /\ client = <<>>

NonEmpty(cell) == cell # Absent /\ cell # <<(<<>>)>>

StoredOk ==
    /\ storage["isLoggedIn"] = <<(<<"true">>)>>
    /\ NonEmpty(storage["authToken"])
    /\ NonEmpty(storage["athleteId"])

ReadsSucceeded == faults = <<>>

ProfileParses ==
    storage["athleteProfile"] = Absent \/ storage["athleteProfile"][1].valid

C15_BootstrapFailsOpen ==
    (Booted /\ (~ReadsSucceeded \/ ~ProfileParses)) =>
        /\ ~isLoading
        /\ ~isAuthenticated
        /\ token = Null
        /\ user = <<>>

\* bootstrap has ended over a complete stored session one of whose reads threw
C15_Witness ==
    /\ Booted
    /\ StoredOk
    /\ ProfileParses
    /\ ~ReadsSucceeded
    /\ ~isLoading /\ ~isAuthenticated

\* C16: isLoading is true initially and stays true exactly until checkAuth
\* has finished with storage; while it is true the application shows the
\* loading screen (neither LoginPage nor MainTabs is mounted, so nothing has
\* called processAuthSuccess or login); isLoading eventually becomes false
\* and is never true again.
C16_LoadingUntilBootstrapEnds ==
    /\ isLoading = TRUE
    /\ [](isLoading <=> bootPc # "done")
    /\ [](isLoading =>
            /\ route = "Loading"
            /\ ~loginMounted /\ ~mainMounted
            /\ procs = <<>>
            /\ oauthOpens = 0)
    /\ <>(~isLoading)
    /\ [][~isLoading => ~isLoading']_vars

\* bootstrap is past its first reads over a stored session and still loading
C16_Witness ==
    /\ isLoading
    /\ bootPc = "profile"
    /\ route = "Loading"
    /\ storage["isLoggedIn"] = <<(<<"true">>)>>

\* the launch lookup of the current activation has not resolved yet
LaunchLookupPending == enabled /\ activation \in hookInit

\* C17: in an activation of useDeepLink whose launch URL parses to
\* auth-success or auth-error, no result of a live 'url' event reaches the
\* callback before the launch lookup of that activation has resolved and
\* delivered its result (only a live event carries a URL other than the
\* launch URL).
C17_LaunchUrlDeliveredFirst ==
    (LaunchLookupPending /\ launchUrl \in Forwardable) =>
        \A u \in Forwardable \ {launchUrl} : cbCount[u] = 0

\* the URLs whose result is not of type auth-success or auth-error
NotAuthUrls ==
    {u \in Urls \cup {Null} :
        parseDeepLink(u).type \notin {"auth-success", "auth-error"}}

LiveArrival(u) == liveLog' = Append(liveLog, [url |-> u, mounted |-> loginMounted,
                                             auth |-> isAuthenticated])

LaunchArrival == hookInit' # hookInit /\ hookInit' \subseteq hookInit

Untouched ==
    /\ cbCount' = cbCount /\ cbOff' = cbOff
    /\ pendingDeepLink' = pendingDeepLink /\ nEvents' = nEvents
    /\ isAuthenticated' = isAuthenticated /\ token' = token /\ user' = user
    /\ storage' = storage /\ procs' = procs

\* C18: the useDeepLink callback is called only with results of type
\* auth-success or auth-error: a live or launch URL that parses to unknown,
\* or that is null or empty, never reaches the callback, and the step that
\* delivers it changes neither the pending slot nor isAuthenticated, token,
\* user, storage or the running invocations.
C18_OnlyAuthResultsForwarded ==
    /\ [](\A u \in Urls \ {Null} : u \in NotAuthUrls => cbCount[u] = 0)
    /\ [](pendingDeepLink # <<>> =>
            pendingDeepLink[1].result.type \in {"auth-success", "auth-error"})
    /\ [][\A u \in NotAuthUrls \ {Null} : LiveArrival(u) => Untouched]_vars
    /\ [][(LaunchArrival /\ launchUrl \in NotAuthUrls) => Untouched]_vars

\* https://example.com/other has reached handleUrl with LoginPage mounted
C18_Witness ==
    /\ seenCount[UrlOther] >= 1
    /\ cbCount[UrlOther] = 0
    /\ liveLog # <<>> /\ liveLog[1].url = UrlOther /\ liveLog[1].mounted
    /\ pendingDeepLink = <<>>

\* C19: while enabled is false the live subscription is gone, the callback
\* is not invoked and the processedUrls set is empty (so it is empty when the
\* listener is enabled again), also when a launch lookup of the previous
\* activation resolves after the deactivation.
C19_DeactivationIsClean ==
    /\ ~enabled => (~subscribed /\ processedUrls = {})
    /\ cbOff = 0

AllParamsNull(params) ==
    /\ params.athleteId = Null /\ params.token = Null
    /\ params.firstName = Null /\ params.lastName = Null
    /\ params.profile = Null /\ params.error = Null

Falsy(url) == url = Null \/ url = <<>>

\* C20: parseDeepLink returns type null, all six params null and rawUrl null
\* exactly when its input is null or the empty string; for every non-empty
\* input that does not begin with ifitclub:// it returns type unknown, all six
\* params null and rawUrl equal to the input; so type is null if and only if
\* rawUrl is null.
C20_ParseAbsentAndForeign ==
    parseOut # <<>> =>
      LET r == parseOut[1]
      IN  /\ (r.type = "null") <=> Falsy(parseIn)
          /\ Falsy(parseIn) => (AllParamsNull(r.params) /\ r.rawUrl = Null)
          /\ (~Falsy(parseIn) /\ Head(parseIn) # Scheme) =>
                /\ r.type = "unknown"
                /\ AllParamsNull(r.params)
                /\ r.rawUrl = parseIn
          /\ (r.type = "null") <=> (r.rawUrl = Null)

\* a string that contains auth-success and the scheme, but does not begin
\* with the scheme, has been parsed
C20_Witness ==
    /\ parseOut # <<>>
    /\ parseIn = <<"https://", Scheme, "auth-success">>
    /\ parseOut[1].type = "unknown"
    /\ parseOut[1].rawUrl = parseIn

\* the text of a URL before its first "?"
PathPart(url) == Split(url, "?")[1]

Has(s, marker) == \E i \in 1..Len(s) : s[i] = marker

SchemeUrl(url) == ~Falsy(url) /\ Head(url) = Scheme

\* C21: for every URL that begins with ifitclub://, the type parseDeepLink
\* returns is decided by the part before the first "?" alone: auth-success
\* when that part holds auth-success, auth-error when it holds auth-error,
\* unknown otherwise, whatever the query string contains.
C21_TypeFromPathOnly ==
    (parseOut # <<>> /\ SchemeUrl(parseIn)) =>
        parseOut[1].type =
            IF Has(PathPart(parseIn), "auth-success") THEN "auth-success"
            ELSE IF Has(PathPart(parseIn), "auth-error") THEN "auth-error"
            ELSE "unknown"

\* the callback URLs: ifitclub://<host>?<query>
CallbackUrl(url, host) ==
    Truthy(url) /\ Len(url) >= 3 /\ url[1] = Scheme /\ url[2] = host /\ url[3] = "?"

\* the text the URL carries for a key, as written in the URL; Null when the
\* key does not occur in the query string
RawOf(url, key) ==
    LET at == {i \in 2..(Len(url) - 1) :
                  url[i] = key /\ url[i - 1] \in {"?", "&"} /\ url[i + 1] = "="}
    IN  IF at = {} THEN Null
        ELSE LET i   == CHOOSE j \in at : \A k \in at : j <= k
                 amp == IndexFrom(url, "&", i)
             IN  SubSeq(url, i + 2, IF amp = 0 THEN Len(url) ELSE amp - 1)

\* every "%" of s starts an escape
RECURSIVE WellEscaped(_)
WellEscaped(s) ==
    IF s = <<>> THEN TRUE
    ELSE IF s[1] = "%"
         THEN Len(s) >= 2 /\ s[2] \in HexPairs /\ WellEscaped(SubSeq(s, 3, Len(s)))
    ELSE WellEscaped(Tail(s))

\* a well-escaped text with each escape replaced, once, by its character
RECURSIVE Unescape(_)
Unescape(s) ==
    IF s = <<>> THEN <<>>
    ELSE IF s[1] = "%" THEN <<HexChar(s[2])>> \o Unescape(SubSeq(s, 3, Len(s)))
    ELSE <<s[1]>> \o Unescape(Tail(s))

KeySet == {QueryKeys[i] : i \in 1..Len(QueryKeys)}

AllWellEscaped(url) ==
    \A k \in KeySet : RawOf(url, k) # Null => WellEscaped(RawOf(url, k))

\* C22: for an ifitclub://auth-success?... URL that carries athleteId and
\* token, whatever the (well-escaped) values of the other four keys,
\* parseDeepLink returns type "auth-success" with params.athleteId and
\* params.token equal to the values of the URL percent-decoded once
C22_SuccessCarriesIdAndToken ==
    (/\ parseOut # <<>>
     /\ CallbackUrl(parseIn, "auth-success")
     /\ AllWellEscaped(parseIn)
     /\ RawOf(parseIn, "athleteId") # Null
     /\ RawOf(parseIn, "token") # Null) =>
        /\ parseOut[1].type = "auth-success"
        /\ parseOut[1].params.athleteId = Unescape(RawOf(parseIn, "athleteId"))
        /\ parseOut[1].params.token = Unescape(RawOf(parseIn, "token"))

\* C23: round trip: on a callback URL (auth-success or auth-error) whose
\* values are each the percent-encoding of a non-empty text, parseDeepLink
\* returns for every key that is present exactly that text, the value of the
\* URL decoded once; this includes profile and error texts that contain "%"
C23_RoundTrip ==
    (/\ parseOut # <<>>
     /\ \E h \in QueryHosts : CallbackUrl(parseIn, h)
     /\ AllWellEscaped(parseIn)) =>
        \A k \in KeySet :
            RawOf(parseIn, k) \notin {Null, <<>>} =>
                parseOut[1].params[k] = Unescape(RawOf(parseIn, k))

\* C24: on a callback URL (here one without any "%"), each of the six keys
\* comes back as the empty string when it is present with an empty value, and
\* as null only when it is absent from the query string
C24_EmptyIsNotNull ==
    (/\ parseOut # <<>>
     /\ \E h \in QueryHosts : CallbackUrl(parseIn, h)
     /\ ~Has(parseIn, "%")) =>
        \A k \in KeySet :
            /\ RawOf(parseIn, k) = <<>> => parseOut[1].params[k] = <<>>
            /\ parseOut[1].params[k] = Null => RawOf(parseIn, k) = Null

Malformed(raw) == raw # Null /\ ~WellEscaped(raw)

\* C25: parseDeepLink always returns; and on a callback URL without profile
\* and error, a firstName or lastName whose percent-encoding is malformed comes
\* back as null, while the type is still the one of the host and athleteId
\* and token are still what the URL carries
C25_MalformedNameIsNull ==
    parseOut # <<>> =>
        /\ parseOut[1].type \in {"null", "unknown", "auth-success", "auth-error"}
        /\ \A h \in QueryHosts :
              (/\ CallbackUrl(parseIn, h)
               /\ RawOf(parseIn, "profile") = Null
               /\ RawOf(parseIn, "error") = Null) =>
                  /\ parseOut[1].type = h
                  /\ \A k \in {"firstName", "lastName"} :
                        Malformed(RawOf(parseIn, k)) => parseOut[1].params[k] = Null
                  /\ \A k \in {"athleteId", "token"} :
                        (RawOf(parseIn, k) # Null /\ WellEscaped(RawOf(parseIn, k))) =>
                            parseOut[1].params[k] = Unescape(RawOf(parseIn, k))

\* the login call that committed the session storage should hold: it
\* resolved, and no later login resolved and no logout ran after it
Committed(i) ==
    /\ hist[i].op = "login"
    /\ hist[i].ok
    /\ \A j \in (i + 1)..Len(hist) :
          /\ hist[j].op # "logout"
          /\ ~(hist[j].op = "login" /\ hist[j].ok)

LastRestart == restarts[Len(restarts)]

\* the app was started again after the calls of hist, its bootstrap has
\* ended, and no storage read failed in it
Rebooted ==
    /\ restarts # <<>>
    /\ bootPc = "done"
    /\ client = <<>>
    /\ LastRestart.calls = Len(hist)
    /\ LastRestart.faults = Len(faults)

\* C26: after login(t, u) resolved and no logout ran since, a restart of the
\* app ends its bootstrap authenticated with token t and a user whose
\* athleteId is u.athleteId, also when the athleteProfile key was overwritten
\* by the profile cache in between
C26_SessionSurvivesRestart ==
    \A i \in DOMAIN hist :
        (Committed(i) /\ Rebooted) =>
            /\ isAuthenticated
            /\ token = hist[i].token
            /\ user # <<>>
            /\ user[1].athleteId = hist[i].user[1].athleteId

\* a step writes a value under key k
Written(k) == storage'[k] # storage[k] /\ storage'[k] # Absent

\* the step is a call of AuthProvider.login by processAuthSuccess
LoginCalled ==
    /\ Len(procs') = Len(procs) + 1
    /\ CalledLogin(procs'[Len(procs')])

SessionKeys == {"authToken", "athleteId", "isLoggedIn"}

\* C27: every storage key has one writer: a step that writes authToken,
\* athleteId or isLoggedIn is a call of AuthProvider.login, and a step that
\* writes athleteProfile, athleteStats or athleteActivities is not one (it
\* is a step of the data-fetching cache helpers)
C27_OneWriterPerKey ==
    [][\A k \in Keys :
          Written(k) => IF k \in SessionKeys THEN LoginCalled ELSE ~LoginCalled]_vars

SessionConsistent ==
    /\ isAuthenticated <=> token # Null
    /\ isAuthenticated <=> user # <<>>

\* a login or logout call resumes after its storage operation failed: it throws
CallThrows == IF client = <<>> THEN FALSE ELSE ~client[1].ok /\ client' = <<>>

\* C28: in every state of AuthProvider isAuthenticated is true exactly when
\* token is non-null and exactly when user is non-null; and a login or logout
\* that throws leaves all three as they were
C28_SessionFieldsAgree ==
    /\ []SessionConsistent
    /\ [][CallThrows => UNCHANGED <<isAuthenticated, token, user>>]_vars

\* a logout resolved on an authenticated session after a login that threw
C28_Witness ==
    /\ Len(hist) = 2
    /\ client = <<>>
    /\ hist[1].op = "login" /\ ~hist[1].ok
    /\ hist[2].op = "logout" /\ hist[2].ok /\ hist[2].was.isAuthenticated
    /\ ~isAuthenticated

\* C29: after logout has resolved, and as long as no login was called since,
\* isAuthenticated is false and the session keys are absent: a login call
\* that was started before the logout does not complete afterwards and
\* authenticate the session again
C29_LogoutIsFinal ==
    loggedOut =>
        /\ ~isAuthenticated
        /\ \A k \in SessionKeys : ~Present(storage, k)

\* C30: whenever isAuthenticated is true, user.athleteId is an integer and
\* no processing of a callback URL whose athleteId is not a decimal integer
\* has got past its login call: such a link never authenticates the session
C30_AthleteIdIsInteger ==
    isAuthenticated =>
        /\ user # <<>>
        /\ user[1].athleteId # NaN
        /\ \A i \in DOMAIN procs :
              procs[i].url \in IdUrls => procs[i].pc \in {"invalid", "login", "failed"}

====
